---- MODULE Spec2Model ----
(***************************************************************************)
(* Model of the task-approval bot (src/src/bot/bot.service.ts): the event  *)
(* dispatcher (startPolling), the conversation engine (handleMessage,      *)
(* handleCallback) and the reminder scheduler (startReminderChecks), with  *)
(* the three collaborators they share: the session store (redis), the      *)
(* repository (prisma user/task tables) and the messaging gateway.         *)
(*                                                                         *)
(* Both loops are setInterval timers with async callbacks, so a timer can  *)
(* fire while an earlier callback of the same timer is still awaiting a    *)
(* call.  Every callback in flight is an instance with its own position    *)
(* (pc) and locals; one action is one await-to-await segment of the code.  *)
(* Every awaited call can fail; failures are counted in faults.            *)
(***************************************************************************)
EXTENDS Integers, Sequences, FiniteSets, TLC

(***************************************************************************)
(* Bounds of the model.                                                    *)
(***************************************************************************)
MaxFaults == 1
MaxClockSteps == 4

(***************************************************************************)
(* Strings.  A string is a sequence of one-character strings, so that      *)
(* split, includes, startsWith and parseInt compute on the characters.     *)
(* Undefined stands for the JavaScript undefined (an absent field).        *)
(***************************************************************************)
Undefined == <<"undefined">>

Digits == <<"0", "1", "2", "3", "4", "5", "6", "7", "8", "9">>

IsDigit(c) == \E d \in 1..10 : Digits[d] = c

DigitVal(c) == (CHOOSE d \in 1..10 : Digits[d] = c) - 1

RECURSIVE SplitAcc(_, _, _, _, _)
SplitAcc(s, sep, i, cur, acc) ==
    IF i > Len(s) THEN Append(acc, cur)
    ELSE IF s[i] = sep THEN SplitAcc(s, sep, i + 1, <<>>, Append(acc, cur))
    ELSE SplitAcc(s, sep, i + 1, Append(cur, s[i]), acc)

\* String.prototype.split with a one-character separator.
Split(s, sep) == SplitAcc(s, sep, 1, <<>>, <<>>)

Includes(s, c) == \E i \in 1..Len(s) : s[i] = c

StartsWith(s, p) == Len(s) >= Len(p) /\ SubSeq(s, 1, Len(p)) = p

RECURSIVE SkipSpaces(_, _)
SkipSpaces(s, i) ==
    IF i <= Len(s) /\ s[i] = " " THEN SkipSpaces(s, i + 1) ELSE i

RECURSIVE DigitsValue(_, _, _)
DigitsValue(s, i, acc) ==
    IF i > Len(s) \/ ~IsDigit(s[i]) THEN acc
    ELSE DigitsValue(s, i + 1, acc * 10 + DigitVal(s[i]))

\* parseInt(text, 10): leading blanks, an optional sign, then the longest run
\* of digits; NaN when there is no digit there.  parseInt(undefined) is NaN.
ParseInt(s) ==
    IF s = Undefined THEN [nan |-> TRUE, n |-> 0]
    ELSE LET i == SkipSpaces(s, 1)
             neg == i <= Len(s) /\ s[i] = "-"
             j == IF i <= Len(s) /\ s[i] \in {"-", "+"} THEN i + 1 ELSE i
         IN IF j > Len(s) \/ ~IsDigit(s[j]) THEN [nan |-> TRUE, n |-> 0]
            ELSE [nan |-> FALSE,
                  n |-> IF neg THEN 0 - DigitsValue(s, j, 0)
                               ELSE DigitsValue(s, j, 0)]

(***************************************************************************)
(* The enumerations of bot.types, each member's value its own name.        *)
(***************************************************************************)
TASK_STATUS ==
    [PENDING |-> "PENDING", APPROVED |-> "APPROVED", REJECTED |-> "REJECTED"]

USER_STEPS ==
    [AWAITING_DESCRIPTION |-> "AWAITING_DESCRIPTION",
     AWAITING_USER_ID |-> "AWAITING_USER_ID",
     AWAITING_USER_ID_FOR_TASKS |-> "AWAITING_USER_ID_FOR_TASKS",
     AWAITING_TIME |-> "AWAITING_TIME"]

(***************************************************************************)
(* Time is in milliseconds, as Date.getTime().  The clock of the model     *)
(* advances by one period of the reminder timer each time that timer       *)
(* fires.                                                                  *)
(***************************************************************************)
reminderCheckInterval == 30000

MsPerMinute == 60000

MaxClock == MaxClockSteps * reminderCheckInterval

(***************************************************************************)
(* Chats, users and the values events carry.                               *)
(***************************************************************************)
Ann == <<"a", "n", "n", "@", "x">>

Bob == <<"b", "o", "b", "@", "x">>

Chats == {Ann, Bob}

NoFile == [fileId |-> Undefined, caption |-> Undefined]

VARIABLES
    feed,        \* the gateway's events, in order; event k has eventId k
    arrived,     \* how many events of feed the gateway holds so far
    lastEventId, \* BotService.lastEventId, the dispatcher's watermark
    poll,        \* the callbacks of the pollEvents timer in flight
    redis,       \* the session store: chatId -> <<>> or <<session>>
    users,       \* the User table
    tasks,       \* the Task table, in creation order
    clock,       \* the wall clock, in milliseconds
    sweep,       \* the callbacks of the reminderChecks timer in flight
    faults,      \* how many awaited calls have failed so far
    reminders    \* history: the reminders sent, [id, at, st], in order

vars == <<feed, arrived, lastEventId, poll, redis, users, tasks, clock,
          sweep, faults, reminders>>

(***************************************************************************)
(* The repository (prisma).                                                *)
(***************************************************************************)
\* A query that selects only the tasks no sweep has rescheduled yet.
TaskFindManyFresh(ts, now) ==
    SelectSeq(ts, LAMBDA t : t.status = "PENDING" /\ t.lastRemind = 0)

\* task.findMany({where: {status: 'PENDING', lastRemind: {lt: now}}})
TaskFindManyDue(ts, now) ==
    SelectSeq(ts, LAMBDA t : t.status = "PENDING" /\ t.lastRemind < now)

\* An update whose data names the status as well.
TaskUpdateRemindAndStatus(ts, id, v) ==
    [n \in 1..Len(ts) |->
        IF ts[n].id = id
        THEN [ts[n] EXCEPT !.lastRemind = v, !.status = "REMINDED"]
        ELSE ts[n]]

\* task.update({where: {id}, data: {lastRemind}}): writes that one column.
TaskUpdateLastRemind(ts, id, v) ==
    [i \in 1..Len(ts) |->
        IF ts[i].id = id THEN [ts[i] EXCEPT !.lastRemind = v] ELSE ts[i]]

\* task.update({where: {id}, data: {status}}): writes that one column.
TaskUpdateStatus(ts, id, st) ==
    [i \in 1..Len(ts) |->
        IF ts[i].id = id THEN [ts[i] EXCEPT !.status = st] ELSE ts[i]]

\* task.findUnique({where: {id}}): <<>> or <<row>>.
TaskFindUnique(ts, id) == SelectSeq(ts, LAMBDA t : t.id = id)

\* user.findUnique({where: {vkId}}): <<>> or <<row>>.
UserFindUnique(us, vkId) ==
    IF \E u \in us : u.vkId = vkId
    THEN <<CHOOSE u \in us : u.vkId = vkId>>
    ELSE <<>>

\* user.upsert({where: {vkId}, update: {}, create: {vkId, firstName,
\* lastName}}): vkId is @unique, so a row is created only when none has it.
\* A create in place of the upsert: a row is added whether or not one exists.
UserCreate(us, vkId, firstName, lastName) ==
    us \cup {[vkId |-> vkId, firstName |-> firstName, lastName |-> lastName]}

UserUpsert(us, vkId, firstName, lastName) ==
    IF \E u \in us : u.vkId = vkId THEN us
    ELSE us \cup {[vkId |-> vkId, firstName |-> firstName,
                   lastName |-> lastName]}

\* The id the database gives the n-th row of the Task table.
TaskId(n) == <<Digits[n + 1]>>

(***************************************************************************)
(* The reminder scheduler: startReminderChecks.                            *)
(***************************************************************************)
\* The callbacks of a timer that can be in flight at once: the one that is
\* running and one that fired before it ended.
Sweeps == {1, 2}

Ticks == {1, 2}

\* One callback of the reminderChecks timer: its position, its now, the rows
\* findMany returned and the index of the one the loop is at.  out and sent
\* are history: how each iteration so far ended, and the ids of the tasks a
\* reminder was sent for.
IdleSweep ==
    [pc |-> "idle", now |-> 0, sel |-> <<>>, k |-> 0, out |-> <<>>,
     sent |-> <<>>]

\* A reschedule that forgets the minutes-to-milliseconds factor.
NewLastRemindNoFactor(now, task) == now + task.remindInterval

\* new Date(now.getTime() + task.remindInterval * 60 * 1000)
NewLastRemind(now, task) == now + task.remindInterval * MsPerMinute

\* The end of one iteration of for (const task of tasks).
SweepAdvance(sw) ==
    IF sw.k < Len(sw.sel) THEN [sw EXCEPT !.k = @ + 1, !.pc = "send"]
    ELSE [sw EXCEPT !.pc = "ended"]

\* A catch that goes on to the update of the task whose send threw.
SweepCatchGoOn(sw, what) == [sw EXCEPT !.pc = "update"]

\* A sweep with one try around the whole loop: a throw ends the sweep.
SweepCatchAll(sw, what) == [sw EXCEPT !.out = Append(@, what), !.pc = "ended"]

\* What the catch around one task's iteration does after a throw.
SweepCatchTask(sw, what) == SweepAdvance([sw EXCEPT !.out = Append(@, what)])

\* The row written after a reminder was sent for the task at sw.k.
SweepWrite(ts, sw) ==
    TaskUpdateLastRemind(ts, sw.sel[sw.k].id, NewLastRemind(sw.now, sw.sel[sw.k]))

\* A callback that has ended (or a handler that has returned or thrown) still
\* shows its locals; it leaves at once, before anything else happens.
Settled ==
    /\ \A s \in Sweeps : sweep[s].pc # "ended"
    /\ \A i \in Ticks : poll[i].pc \notin {"returned", "failed"}

\* The timer fires, reminderCheckInterval after it fired last: const now =
\* new Date(), and findMany is issued.  Time is counted in periods of this
\* timer.  The callback that starts is the lowest instance not in flight.
ReminderTick(s) ==
    /\ Settled
    /\ sweep[s].pc = "idle"
    /\ \A r \in Sweeps : r < s => sweep[r].pc # "idle"
    /\ clock < MaxClock
    /\ clock' = clock + reminderCheckInterval
    /\ sweep' = [sweep EXCEPT ![s] =
                    [IdleSweep EXCEPT !.pc = "findMany", !.now = clock']]
    /\ UNCHANGED <<feed, arrived, lastEventId, poll, redis, users, tasks,
                   faults, reminders>>

\* findMany returns: the rows selected are a snapshot.  A failure is caught
\* by the outer try and ends the sweep.
SweepFindMany(s) ==
    /\ Settled
    /\ sweep[s].pc = "findMany"
    /\ \E fail \in BOOLEAN :
          /\ fail => faults < MaxFaults
          /\ faults' = IF fail THEN faults + 1 ELSE faults
          /\ LET sel == TaskFindManyDue(tasks, sweep[s].now)
             IN sweep' = [sweep EXCEPT ![s] =
                   IF fail \/ sel = <<>> THEN [@ EXCEPT !.pc = "ended"]
                   ELSE [@ EXCEPT !.sel = sel, !.k = 1, !.pc = "send"]]
    /\ UNCHANGED <<feed, arrived, lastEventId, poll, redis, users, tasks,
                   clock, reminders>>

\* sendReminderWithButtons(task.userToId, task.id): findUnique, then sendFile
\* or sendText with the approve/reject buttons.  A failed lookup, a missing
\* row or a failed send throws into the catch of this task's iteration.
SweepSend(s) ==
    /\ Settled
    /\ sweep[s].pc = "send"
    /\ \E fail \in BOOLEAN :
          /\ fail => faults < MaxFaults
          /\ faults' = IF fail THEN faults + 1 ELSE faults
          /\ LET sw == sweep[s]
                 id == sw.sel[sw.k].id
             IN IF fail \/ TaskFindUnique(tasks, id) = <<>> THEN
                    /\ sweep' = [sweep EXCEPT ![s] =
                                    SweepCatchTask(sw, "sendFailed")]
                    /\ UNCHANGED reminders
                ELSE
                    /\ reminders' =
                          Append(reminders,
                                 [id |-> id, at |-> clock,
                                  st |-> TaskFindUnique(tasks, id)[1].status])
                    /\ sweep' = [sweep EXCEPT ![s].pc = "update",
                                              ![s].sent = Append(@, id)]
    /\ UNCHANGED <<feed, arrived, lastEventId, poll, redis, users, tasks,
                   clock>>

\* task.update({where: {id: task.id}, data: {lastRemind: newLastRemind}}); a
\* failure is caught by the catch of this task's iteration.
SweepUpdate(s) ==
    /\ Settled
    /\ sweep[s].pc = "update"
    /\ \E fail \in BOOLEAN :
          /\ fail => faults < MaxFaults
          /\ faults' = IF fail THEN faults + 1 ELSE faults
          /\ LET sw == sweep[s]
             IN IF fail THEN
                    /\ sweep' = [sweep EXCEPT ![s] =
                                    SweepCatchTask(sw, "updateFailed")]
                    /\ UNCHANGED tasks
                ELSE
                    /\ tasks' = SweepWrite(tasks, sw)
                    /\ sweep' = [sweep EXCEPT ![s] =
                           SweepAdvance([sw EXCEPT !.out = Append(@, "ok")])]
    /\ UNCHANGED <<feed, arrived, lastEventId, poll, redis, users, clock,
                   reminders>>

\* The callback of the sweep has ended.
SweepEnd(s) ==
    /\ sweep[s].pc = "ended"
    /\ sweep' = [sweep EXCEPT ![s] = IdleSweep]
    /\ UNCHANGED <<feed, arrived, lastEventId, poll, redis, users, tasks,
                   clock, faults, reminders>>

(***************************************************************************)
(* The session store (redis).  A session is {step, taskData} as JSON, with *)
(* the lifetime given to SET: EX seconds, or -1 for a key set without EX.  *)
(***************************************************************************)
SessionTtl == 3600

EmptyTaskData ==
    [description |-> Undefined, firstName |-> Undefined,
     lastName |-> Undefined, fileId |-> Undefined, fileCaption |-> Undefined,
     userId |-> Undefined]

\* redis.set(chatId, JSON.stringify({step, taskData}), 'EX', 3600)
RedisSetEx(r, chatId, step, taskData) ==
    [r EXCEPT ![chatId] =
        <<[step |-> step, taskData |-> taskData, ttl |-> SessionTtl]>>]

\* redis.set(chatId, JSON.stringify({step, taskData})): no EX argument.
RedisSet(r, chatId, step, taskData) ==
    [r EXCEPT ![chatId] = <<[step |-> step, taskData |-> taskData, ttl |-> -1]>>]

\* redis.del(chatId)
RedisDel(r, chatId) == [r EXCEPT ![chatId] = <<>>]

(***************************************************************************)
(* One callback of the pollEvents timer: its position and its locals.      *)
(* io is the history of what the handler of event k has sent so far;       *)
(* alone is history too: no other callback of the timer has been in flight *)
(* since this one started.                                                 *)
(***************************************************************************)
IdlePoll ==
    [pc |-> "idle", last |-> 0, hi |-> 0, k |-> 0,
     step |-> "", taskData |-> EmptyTaskData, contactId |-> Undefined,
     at |-> 0, responseText |-> "", markup |-> FALSE, counts |-> <<>>,
     io |-> <<>>, alone |-> TRUE]

\* The result of one await-to-await segment of a handler: the callback's new
\* locals, how the segment ends (await, return, throw) and the stores.
Res(p, exit, r, us, ts) ==
    [p |-> p, exit |-> exit, redis |-> r, users |-> us, tasks |-> ts]

Await(p, pc) == Res([p EXCEPT !.pc = pc], "await", redis, users, tasks)

Throw(p) == Res(p, "throw", redis, users, tasks)

\* responseText is set and the handler goes on to its closing send.
Reply(p, text) ==
    Res([p EXCEPT !.pc = "m.send", !.responseText = text], "await",
        redis, users, tasks)

\* if (file) { taskData.fileId = file.fileId; taskData.fileCaption = ... }
WithFile(td, file) ==
    IF file = NoFile THEN td
    ELSE [td EXCEPT !.fileId = file.fileId, !.fileCaption = file.caption]

\* The trailing '/'-separated segment of a contact share.
\* A contact id taken from the head of the link instead of its tail.
ContactIdHead(text) == Split(text, "/")[1]

\* const contactId = urlParts[urlParts.length - 1]
ContactId(text) == LET urlParts == Split(text, "/") IN urlParts[Len(urlParts)]

\* !contactId || !contactId.includes('@')
BadContact(contactId) == contactId = <<>> \/ ~Includes(contactId, "@")

\* isNaN(interval) || interval <= 0
BadInterval(interval) == interval.nan \/ interval.n <= 0

\* A creation that copies a status out of the session data.
NewTaskAnyStatus(ts, chatId, td, interval, now) ==
    [id |-> TaskId(Len(ts) + 1), userToId |-> td.userId, chatId |-> chatId,
     firstName |-> td.firstName, lastName |-> td.lastName,
     text |-> td.description, fileId |-> td.fileId,
     fileCaption |-> td.fileCaption, status |-> td.fileId,
     remindInterval |-> interval, lastRemind |-> now]

\* prisma.task.create({data: {...}}) of handleMessage: the new row.
NewTask(ts, chatId, td, interval, now) ==
    [id |-> TaskId(Len(ts) + 1), userToId |-> td.userId, chatId |-> chatId,
     firstName |-> td.firstName, lastName |-> td.lastName,
     text |-> td.description, fileId |-> td.fileId,
     fileCaption |-> td.fileCaption, status |-> TASK_STATUS.PENDING,
     remindInterval |-> interval, lastRemind |-> now]

\* The columns of Task that are not nullable must be given.
TaskRowValid(row) ==
    /\ row.userToId # Undefined
    /\ row.firstName # Undefined
    /\ row.lastName # Undefined

(***************************************************************************)
(* handleMessage(chatId, text, event), one segment at a time.  fail says   *)
(* whether the call awaited at p.pc fails.                                 *)
(***************************************************************************)
\* const userState = await redis.get(chatId), and the switch up to the
\* next await.
MsgAfterGet(p, ev, fail) ==
    IF fail THEN Throw(p)
    ELSE LET userState == redis[ev.chatId] IN
    IF userState # <<>> THEN
        LET step == userState[1].step
            taskData == userState[1].taskData
            q == [p EXCEPT !.step = step, !.taskData = taskData]
        IN CASE step = USER_STEPS.AWAITING_DESCRIPTION ->
                  Await([q EXCEPT !.taskData =
                            WithFile([taskData EXCEPT
                                         !.description = ev.text,
                                         !.firstName = ev.from.firstName,
                                         !.lastName = ev.from.lastName],
                                     ev.file)],
                        "m.setUserId")
             [] step \in {USER_STEPS.AWAITING_USER_ID, USER_STEPS.AWAITING_USER_ID_FOR_TASKS} ->
                  IF ev.text = Undefined THEN Throw(q)
                  ELSE IF BadContact(ContactId(ev.text))
                  THEN Reply(q, "badLink")
                  ELSE Await([q EXCEPT !.contactId = ContactId(ev.text)],
                             IF step = USER_STEPS.AWAITING_USER_ID
                             THEN "m.findUser" ELSE "m.findUserForTasks")
             [] step = USER_STEPS.AWAITING_TIME ->
                  IF BadInterval(ParseInt(ev.text))
                  THEN Reply(q, "badInterval")
                  ELSE Await([q EXCEPT !.at = clock], "m.create")
             [] OTHER -> Reply(q, "unknown")
    ELSE IF ev.text = Undefined THEN Throw(p)
    ELSE LET command == Split(ev.text, " ")[1]
         IN CASE command = <<"/", "s", "t", "a", "r", "t">> ->
                    Await(p, "m.startDel")
              [] command = <<"/", "h", "e", "l", "p">> -> Reply(p, "help")
              [] OTHER -> Reply(p, "unknown")

\* AWAITING_DESCRIPTION: redis.set(..., AWAITING_USER_ID, 'EX', 3600).
MsgSetUserId(p, ev, fail) ==
    IF fail THEN Throw(p)
    ELSE Res([p EXCEPT !.pc = "m.send", !.responseText = "askContact"],
             "await",
             RedisSetEx(redis, ev.chatId, USER_STEPS.AWAITING_USER_ID, p.taskData),
             users, tasks)

\* A lookup whose result is not tested: the flow goes on for any contact.
MsgFindUserAny(p, ev, fail) ==
    IF fail THEN Reply(p, "userCheckError")
    ELSE Await([p EXCEPT !.taskData =
                   WithFile([p.taskData EXCEPT !.userId = p.contactId],
                            ev.file)],
               "m.setTime")

\* AWAITING_USER_ID: user.findUnique({where: {vkId: contactId}}).
MsgFindUser(p, ev, fail) ==
    IF fail THEN Reply(p, "userCheckError")
    ELSE IF UserFindUnique(users, p.contactId) = <<>>
    THEN Reply(p, "userNotFound")
    ELSE Await([p EXCEPT !.taskData =
                   WithFile([p.taskData EXCEPT !.userId = p.contactId],
                            ev.file)],
               "m.setTime")

\* AWAITING_USER_ID: redis.set(..., AWAITING_TIME, 'EX', 3600), inside the
\* try of the lookup.
MsgSetTime(p, ev, fail) ==
    IF fail THEN Reply(p, "userCheckError")
    ELSE Res([p EXCEPT !.pc = "m.send", !.responseText = "askInterval"],
             "await",
             RedisSetEx(redis, ev.chatId, USER_STEPS.AWAITING_TIME, p.taskData),
             users, tasks)

\* AWAITING_USER_ID_FOR_TASKS: user.findUnique, then task.findMany and the
\* lookups of the report (reads only).
MsgFindUserForTasks(p, ev, fail) ==
    IF fail THEN Reply(p, "tasksError")
    ELSE IF UserFindUnique(users, p.contactId) = <<>>
    THEN Reply(p, "userNotFound")
    ELSE Await(p, "m.findTasks")

MsgFindTasks(p, ev, fail) ==
    IF fail THEN Reply(p, "tasksError")
    ELSE Await([p EXCEPT !.responseText =
                   IF \E n \in 1..Len(tasks) : tasks[n].userToId = p.contactId
                   THEN "report" ELSE "noTasks"],
               "m.delTasks")

\* AWAITING_USER_ID_FOR_TASKS: redis.del(chatId), inside the try.
MsgDelTasks(p, ev, fail) ==
    IF fail THEN Reply(p, "tasksError")
    ELSE Res([p EXCEPT !.pc = "m.send"], "await",
             RedisDel(redis, ev.chatId), users, tasks)

\* AWAITING_TIME: task.create, with lastRemind the new Date() taken when the
\* call was made; a failure is caught and breaks out of the switch before
\* redis.del.
MsgCreate(p, ev, fail) ==
    LET row == NewTask(tasks, ev.chatId, p.taskData, ParseInt(ev.text).n, p.at)
    IN IF fail \/ ~TaskRowValid(row) THEN Reply(p, "createError")
       ELSE Res([p EXCEPT !.pc = "m.delTime", !.responseText = "taskCreated"],
                "await", redis, users, Append(tasks, row))

\* AWAITING_TIME: redis.del(chatId) after the try.
MsgDelTime(p, ev, fail) ==
    IF fail THEN Throw(p)
    ELSE Res([p EXCEPT !.pc = "m.send"], "await",
             RedisDel(redis, ev.chatId), users, tasks)

\* /start: redis.del(chatId).
MsgStartDel(p, ev, fail) ==
    IF fail THEN Throw(p)
    ELSE Res([p EXCEPT !.pc = "m.upsert"], "await",
             RedisDel(redis, ev.chatId), users, tasks)

\* /start: user.upsert; a failure is logged and thrown again.
MsgUpsert(p, ev, fail) ==
    IF fail \/ ev.from.firstName = Undefined \/ ev.from.lastName = Undefined
    THEN Throw(p)
    ELSE Res([p EXCEPT !.pc = "m.send", !.responseText = "welcome",
                       !.markup = TRUE],
             "await", redis,
             UserUpsert(users, ev.chatId, ev.from.firstName, ev.from.lastName),
             tasks)

\* The closing axios.post of sendText: the reply, with the inline buttons
\* when there are any.
MsgSend(p, ev, fail) ==
    IF fail THEN Throw(p)
    ELSE Res([p EXCEPT !.io = Append(@, <<"send", p.responseText, p.markup>>)],
             "return", redis, users, tasks)

MsgPcs == {"m.get", "m.setUserId", "m.findUser", "m.setTime",
           "m.findUserForTasks", "m.findTasks", "m.delTasks", "m.create",
           "m.delTime", "m.startDel", "m.upsert", "m.send"}

MsgStep(p, ev, fail) ==
    CASE p.pc = "m.get" -> MsgAfterGet(p, ev, fail)
      [] p.pc = "m.setUserId" -> MsgSetUserId(p, ev, fail)
      [] p.pc = "m.findUser" -> MsgFindUser(p, ev, fail)
      [] p.pc = "m.setTime" -> MsgSetTime(p, ev, fail)
      [] p.pc = "m.findUserForTasks" -> MsgFindUserForTasks(p, ev, fail)
      [] p.pc = "m.findTasks" -> MsgFindTasks(p, ev, fail)
      [] p.pc = "m.delTasks" -> MsgDelTasks(p, ev, fail)
      [] p.pc = "m.create" -> MsgCreate(p, ev, fail)
      [] p.pc = "m.delTime" -> MsgDelTime(p, ev, fail)
      [] p.pc = "m.startDel" -> MsgStartDel(p, ev, fail)
      [] p.pc = "m.upsert" -> MsgUpsert(p, ev, fail)
      [] p.pc = "m.send" -> MsgSend(p, ev, fail)

(***************************************************************************)
(* handleCallback(event), one segment at a time.                           *)
(***************************************************************************)
Str_approve == <<"a", "p", "p", "r", "o", "v", "e", "_">>

Str_reject == <<"r", "e", "j", "e", "c", "t", "_">>

Str_create_task == <<"c", "r", "e", "a", "t", "e", "_", "t", "a", "s", "k">>

Str_watch_tasks == <<"w", "a", "t", "c", "h", "_", "t", "a", "s", "k", "s">>

Str_check_user_tasks ==
    <<"c", "h", "e", "c", "k", "_", "u", "s", "e", "r", "_", "t", "a", "s",
      "k", "s">>

Str_watch_statistics ==
    <<"w", "a", "t", "c", "h", "_", "s", "t", "a", "t", "i", "s", "t", "i",
      "c", "s">>

IsDecision(callbackData) ==
    StartsWith(callbackData, Str_approve) \/ StartsWith(callbackData, Str_reject)

\* const [action, taskId] = callbackData.split('_')
CbAction(callbackData) == Split(callbackData, "_")[1]

CbTaskId(callbackData) == Split(callbackData, "_")[2]

\* action === 'approve' ? 'APPROVED' : 'REJECTED'
NewStatus(action) ==
    IF action = <<"a", "p", "p", "r", "o", "v", "e">> THEN "APPROVED"
    ELSE "REJECTED"

\* A reply that goes straight to the send, with no acknowledgement.
CbReplyNoAck(p, text) ==
    Res([p EXCEPT !.pc = "c.send", !.responseText = text], "await",
        redis, users, tasks)

\* responseText is set and the handler goes on to answerCallbackQuery.
CbReply(p, text) ==
    Res([p EXCEPT !.pc = "c.ack", !.responseText = text], "await",
        redis, users, tasks)

\* The reply of an approve/reject callback that found the task with status st.
DecisionReply(st) ==
    CASE st = "APPROVED" -> "alreadyApproved"
      [] st = "REJECTED" -> "alreadyRejected"
      [] OTHER -> "unknownStatus"

\* const userState = await redis.get(chatId), and the branch on callbackData
\* up to the next await.
CbAfterGet(p, ev, fail) ==
    IF fail THEN Throw(p)
    ELSE IF IsDecision(ev.callbackData) THEN Await(p, "c.findTask")
    ELSE CASE ev.callbackData = Str_create_task -> Await(p, "c.setDescription")
           [] ev.callbackData = Str_watch_tasks -> Await(p, "c.watch")
           [] ev.callbackData = Str_check_user_tasks -> Await(p, "c.setForTasks")
           [] ev.callbackData = Str_watch_statistics -> Await(p, "c.count")
           [] OTHER -> CbReply(p, "unknown")

\* task.findUnique({where: {id: taskId}, select: {status: true}})
CbFindTask(p, ev, fail) ==
    LET task == TaskFindUnique(tasks, CbTaskId(ev.callbackData))
    IN IF fail THEN CbReply(p, "taskError")
       ELSE IF task = <<>> THEN CbReply(p, "taskNotFound")
       ELSE IF task[1].status = "PENDING" THEN Await(p, "c.update")
       ELSE CbReply(p, DecisionReply(task[1].status))

\* task.update({where: {id: taskId}, data: {status: newStatus}})
CbUpdate(p, ev, fail) ==
    LET action == CbAction(ev.callbackData)
    IN IF fail THEN CbReply(p, "taskError")
       ELSE Res([p EXCEPT !.pc = "c.ack",
                          !.responseText =
                              IF NewStatus(action) = "APPROVED"
                              THEN "approved" ELSE "rejected"],
                "await", redis, users,
                TaskUpdateStatus(tasks, CbTaskId(ev.callbackData),
                                 NewStatus(action)))

\* create_task: redis.set(chatId, {step: AWAITING_DESCRIPTION, taskData: {}})
CbSetDescription(p, ev, fail) ==
    IF fail THEN Throw(p)
    ELSE Res([p EXCEPT !.pc = "c.ack", !.responseText = "askDescription"],
             "await",
             RedisSet(redis, ev.chatId, USER_STEPS.AWAITING_DESCRIPTION, EmptyTaskData),
             users, tasks)

\* check_user_tasks: redis.set(chatId, {step: AWAITING_USER_ID_FOR_TASKS,
\* taskData: {}})
CbSetForTasks(p, ev, fail) ==
    IF fail THEN Throw(p)
    ELSE Res([p EXCEPT !.pc = "c.ack", !.responseText = "askContactForTasks"],
             "await",
             RedisSet(redis, ev.chatId, USER_STEPS.AWAITING_USER_ID_FOR_TASKS,
                      EmptyTaskData),
             users, tasks)

\* A report that ends the chat's flow: the session is deleted.
CbWatchClear(p, ev, fail) ==
    IF fail THEN CbReply(p, "tasksError")
    ELSE Res([p EXCEPT !.pc = "c.ack", !.responseText = "report"], "await",
             RedisDel(redis, ev.chatId), users, tasks)

\* watch_tasks: task.findMany({where: {chatId: userId}, ...}) and the lookups
\* of the report (reads only).
CbWatch(p, ev, fail) ==
    IF fail THEN CbReply(p, "tasksError")
    ELSE CbReply(p, IF \E n \in 1..Len(tasks) : tasks[n].chatId = ev.from.userId
                    THEN "report" ELSE "noTasks")

\* task.count({where}) for the where of the n-th count of watch_statistics.
TaskCount(ts, userId, n) ==
    Cardinality({m \in 1..Len(ts) :
        /\ ts[m].chatId = userId
        /\ CASE n = 1 -> TRUE
             [] n = 2 -> ts[m].status = "APPROVED"
             [] n = 3 -> ts[m].status = "REJECTED"
             [] OTHER -> ts[m].status = "PENDING"})

\* watch_statistics: the four counts, one await each.
CbCount(p, ev, fail) ==
    IF fail THEN CbReply([p EXCEPT !.counts = <<>>], "statsError")
    ELSE LET counts == Append(p.counts,
                              TaskCount(tasks, ev.from.userId, Len(p.counts) + 1))
         IN IF Len(counts) < 4 THEN Await([p EXCEPT !.counts = counts], "c.count")
            ELSE CbReply([p EXCEPT !.counts = counts], "stats")

\* answerCallbackQuery(queryId, ...); a failure is logged and thrown again.
CbAck(p, ev, fail) ==
    IF fail THEN Throw(p)
    ELSE Await([p EXCEPT !.io = Append(@, <<"ack", "", FALSE>>)], "c.send")

\* The closing axios.post of sendText: the reply, without buttons.
CbSend(p, ev, fail) ==
    IF fail THEN Throw(p)
    ELSE Res([p EXCEPT !.io = Append(@, <<"send", p.responseText, FALSE>>)],
             "return", redis, users, tasks)

CbPcs == {"c.get", "c.findTask", "c.update", "c.setDescription",
          "c.setForTasks", "c.watch", "c.count", "c.ack", "c.send"}

CbStep(p, ev, fail) ==
    CASE p.pc = "c.get" -> CbAfterGet(p, ev, fail)
      [] p.pc = "c.findTask" -> CbFindTask(p, ev, fail)
      [] p.pc = "c.update" -> CbUpdate(p, ev, fail)
      [] p.pc = "c.setDescription" -> CbSetDescription(p, ev, fail)
      [] p.pc = "c.setForTasks" -> CbSetForTasks(p, ev, fail)
      [] p.pc = "c.watch" -> CbWatch(p, ev, fail)
      [] p.pc = "c.count" -> CbCount(p, ev, fail)
      [] p.pc = "c.ack" -> CbAck(p, ev, fail)
      [] p.pc = "c.send" -> CbSend(p, ev, fail)

(***************************************************************************)
(* The event dispatcher: startPolling.                                     *)
(***************************************************************************)
Handled == {"newMessage", "callbackQuery"}

\* The first event from k on, up to hi, that has a handler; hi + 1 when none.
\* An event of another type is passed over and only moves the watermark.
RECURSIVE SkipIgnored(_, _, _)
SkipIgnored(f, k, hi) ==
    IF k <= hi /\ f[k].type \notin Handled THEN SkipIgnored(f, k + 1, hi)
    ELSE k

\* getEvents: the events the gateway holds with an id above lastEventId, as
\* the range of their ids.
GetEvents(last, held) == [lo |-> last + 1, hi |-> held]

\* The loop reaches event n of the batch: its handler is called and runs up
\* to its first await; past the batch, the callback ends.
Begin(p, f, n) ==
    IF n > p.hi THEN IdlePoll
    ELSE [p EXCEPT !.k = n,
                   !.pc = IF f[n].type = "newMessage" THEN "m.get" ELSE "c.get",
                   !.step = "", !.taskData = EmptyTaskData,
                   !.contactId = Undefined, !.at = 0, !.responseText = "", !.markup = FALSE,
                   !.counts = <<>>, !.io = <<>>]

\* A watermark recorded when the loop reaches an event, before its dispatch.
WatermarkBefore(old, n, from) == n

\* this.lastEventId = event.eventId, for the events of the batch passed when
\* the loop stands at n.
Watermark(old, n, from) == IF n > from THEN n - 1 ELSE old

\* The timer fires: getEvents(this.lastEventId, pollTime) is issued.  The
\* callback that starts is the lowest instance not in flight.
PollTick(i) ==
    /\ Settled
    /\ poll[i].pc = "idle"
    /\ \A j \in Ticks : j < i => poll[j].pc # "idle"
    /\ poll' = [j \in Ticks |->
                   IF j = i
                   THEN [IdlePoll EXCEPT
                            !.pc = "getEvents", !.last = lastEventId,
                            !.alone = \A r \in Ticks : poll[r].pc = "idle"]
                   ELSE IF poll[j].pc = "idle" THEN poll[j]
                   ELSE [poll[j] EXCEPT !.alone = FALSE]]
    /\ UNCHANGED <<feed, arrived, lastEventId, redis, users, tasks, clock,
                   sweep, faults, reminders>>

\* getEvents returns.  A failure is thrown into the catch of the callback
\* (the callback stands at no event: k = 0); an empty batch ends the
\* callback; otherwise the loop starts on the first event.
GetEventsReturn(i) ==
    /\ Settled
    /\ poll[i].pc = "getEvents"
    /\ \E fail \in BOOLEAN :
          /\ fail => faults < MaxFaults
          /\ faults' = IF fail THEN faults + 1 ELSE faults
          /\ LET p == poll[i]
                 events == GetEvents(p.last, arrived)
                 n == SkipIgnored(feed, events.lo, events.hi)
             IN IF fail THEN
                    /\ poll' = [poll EXCEPT ![i].pc = "failed"]
                    /\ UNCHANGED lastEventId
                ELSE IF events.hi < events.lo THEN
                    /\ poll' = [poll EXCEPT ![i] = IdlePoll]
                    /\ UNCHANGED lastEventId
                ELSE
                    /\ poll' = [poll EXCEPT ![i] =
                                   Begin([p EXCEPT !.hi = events.hi], feed, n)]
                    /\ lastEventId' = Watermark(lastEventId, n, events.lo)
    /\ UNCHANGED <<feed, arrived, redis, users, tasks, clock, sweep,
                   reminders>>

\* One segment of the handler of event poll[i].k: it ends at the next await,
\* with the handler returning, or with it throwing.
Handle(i, r) ==
    /\ redis' = r.redis
    /\ users' = r.users
    /\ tasks' = r.tasks
    /\ poll' = [poll EXCEPT ![i] =
           CASE r.exit = "await" -> r.p
             [] r.exit = "return" -> [r.p EXCEPT !.pc = "returned"]
             [] r.exit = "throw" -> [r.p EXCEPT !.pc = "failed"]]
    /\ UNCHANGED <<feed, arrived, lastEventId, clock, sweep, reminders>>

HandleMessage(i) ==
    /\ Settled
    /\ poll[i].pc \in MsgPcs
    /\ \E fail \in BOOLEAN :
          /\ fail => faults < MaxFaults
          /\ faults' = IF fail THEN faults + 1 ELSE faults
          /\ Handle(i, MsgStep(poll[i], feed[poll[i].k], fail))

HandleCallback(i) ==
    /\ Settled
    /\ poll[i].pc \in CbPcs
    /\ \E fail \in BOOLEAN :
          /\ fail => faults < MaxFaults
          /\ faults' = IF fail THEN faults + 1 ELSE faults
          /\ Handle(i, CbStep(poll[i], feed[poll[i].k], fail))

\* The handler of event poll[i].k has returned: this.lastEventId =
\* event.eventId, and the loop goes on with the next event of the batch.
LoopNext(i) ==
    /\ poll[i].pc = "returned"
    /\ LET p == poll[i]
           n == SkipIgnored(feed, p.k + 1, p.hi)
       IN /\ poll' = [poll EXCEPT ![i] = Begin(p, feed, n)]
          /\ lastEventId' = Watermark(lastEventId, n, p.k)
    /\ UNCHANGED <<feed, arrived, redis, users, tasks, clock, sweep, faults,
                   reminders>>

\* A callback without the try: the rejection is unhandled and the callback
\* never comes back.
PollCrash(i) ==
    /\ poll[i].pc = "failed"
    /\ poll' = [poll EXCEPT ![i].pc = "crashed"]
    /\ UNCHANGED <<feed, arrived, lastEventId, redis, users, tasks, clock,
                   sweep, faults, reminders>>

\* getEvents or the handler of event poll[i].k has thrown: the catch of the
\* callback logs the error and the callback ends, the rest of the batch
\* undispatched.
PollCatch(i) ==
    /\ poll[i].pc = "failed"
    /\ poll' = [poll EXCEPT ![i] = IdlePoll]
    /\ UNCHANGED <<feed, arrived, lastEventId, redis, users, tasks, clock,
                   sweep, faults, reminders>>

(***************************************************************************)
(* The environment.                                                        *)
(***************************************************************************)
\* The gateway receives the next event of the feed.
Arrive ==
    /\ Settled
    /\ arrived < Len(feed)
    /\ arrived' = arrived + 1
    /\ UNCHANGED <<feed, lastEventId, poll, redis, users, tasks, clock,
                   sweep, faults, reminders>>

\* A key set with EX is dropped by the store once its lifetime has run out
\* without a write.  The lifetime is far longer than the clock of the model
\* runs, so the step is enabled whenever the key has a lifetime.
ExpireSession(c) ==
    /\ Settled
    /\ redis[c] # <<>>
    /\ redis[c][1].ttl > 0
    /\ redis' = RedisDel(redis, c)
    /\ UNCHANGED <<feed, arrived, lastEventId, poll, users, tasks, clock,
                   sweep, faults, reminders>>

(***************************************************************************)
(* Events.                                                                 *)
(***************************************************************************)
Msg(chat, text) ==
    [type |-> "newMessage", chatId |-> chat,
     from |-> [userId |-> chat, firstName |-> <<chat[1]>>,
               lastName |-> <<"L">>],
     text |-> text, file |-> NoFile, callbackData |-> Undefined]

Cb(chat, data) ==
    [type |-> "callbackQuery", chatId |-> chat,
     from |-> [userId |-> chat, firstName |-> <<chat[1]>>,
               lastName |-> <<"L">>],
     text |-> Undefined, file |-> NoFile, callbackData |-> data]

Str_start == <<"/", "s", "t", "a", "r", "t">>

Str_FixBug == <<"F", "i", "x", " ", "b", "u", "g">>

Str_30 == <<"3", "0">>

Str_1 == <<"1">>

\* A contact share: a link whose trailing segment is the contact's id.
Contact(id) == <<"u", ":", "/", "/", "h", "/", "p", "/">> \o id

UserRow(chat) ==
    [vkId |-> chat, firstName |-> <<chat[1]>>, lastName |-> <<"L">>]

\* A task as the creation flow of chat `from` stores it for assignee `to`.
TaskRow(n, from, to, interval, st) ==
    [id |-> TaskId(n), userToId |-> to, chatId |-> from,
     firstName |-> <<from[1]>>, lastName |-> <<"L">>,
     text |-> Str_FixBug, fileId |-> Undefined, fileCaption |-> Undefined,
     status |-> st, remindInterval |-> interval, lastRemind |-> 0]

(***************************************************************************)
(* The state after construction: the watermark is 0, the session store is  *)
(* flushed (onModuleInit), no callback is in flight.  The database         *)
(* outlives the process: it holds the users and tasks of earlier runs.     *)
(***************************************************************************)
InitWith(Feeds, UserSets, TaskSeqs) ==
    /\ feed \in Feeds
    /\ arrived = 0
    /\ lastEventId = 0
    /\ poll = [i \in Ticks |-> IdlePoll]
    /\ redis = [c \in Chats |-> <<>>]
    /\ users \in UserSets
    /\ tasks \in TaskSeqs
    /\ clock = 0
    /\ sweep = [s \in Sweeps |-> IdleSweep]
    /\ faults = 0
    /\ reminders = <<>>

Dispatcher(i) ==
    \/ PollTick(i)
    \/ GetEventsReturn(i)
    \/ HandleMessage(i)
    \/ HandleCallback(i)
    \/ LoopNext(i)
    \/ PollCatch(i)

Scheduler(s) ==
    \/ ReminderTick(s)
    \/ SweepFindMany(s)
    \/ SweepSend(s)
    \/ SweepUpdate(s)
    \/ SweepEnd(s)

(***************************************************************************)
(* The scheduler on its own: the reminder timer and the sweeps it starts,  *)
(* over a database that holds due, resolved and not-yet-due tasks.         *)
(***************************************************************************)
SweepTasks ==
    {<<TaskRow(1, Ann, Bob, 1, "PENDING"), TaskRow(2, Ann, Bob, 2, "PENDING")>>,
     <<TaskRow(1, Ann, Bob, 1, "PENDING"), TaskRow(2, Bob, Ann, 1, "APPROVED")>>,
     <<[TaskRow(1, Ann, Bob, 1, "PENDING") EXCEPT !.lastRemind = 2 * MsPerMinute],
       TaskRow(2, Ann, Bob, 1, "PENDING")>>}

InitSweep == InitWith({<<>>}, {{UserRow(Ann), UserRow(Bob)}}, SweepTasks)

NextSweep == \E s \in Sweeps : Scheduler(s)

SpecSweep == InitSweep /\ [][NextSweep]_vars

\* The row of task id in the table ts (the id is present).
Row(ts, id) == ts[CHOOSE n \in 1..Len(ts) : ts[n].id = id]

\* The ids of the tasks of ts that are PENDING with lastRemind before now.
DueIds(ts, now) ==
    {ts[n].id : n \in {m \in 1..Len(ts) :
                          ts[m].status = "PENDING" /\ ts[m].lastRemind < now}}

\* The selected tasks of sweep sw whose send did not fail, in order.
Delivered(sw) ==
    LET Keep(j) == j > Len(sw.out) \/ sw.out[j] # "sendFailed"
        F[j \in 0..Len(sw.sel)] ==
            IF j = 0 THEN <<>>
            ELSE IF Keep(j) THEN Append(F[j - 1], sw.sel[j].id) ELSE F[j - 1]
    IN F[Len(sw.sel)]

\* C6: a reminder sweep run at time now selects exactly the tasks that are
\* PENDING with lastRemind before now; when it ends it has sent one reminder
\* for each selected task, in order, and none for any other task (a task
\* whose send failed gets none); every update it makes sets the task's
\* lastRemind to now + remindInterval minutes, after which the task is not
\* due at now, so a sweep run immediately afterwards does not select it.
C6_SweepEffect ==
    [][\A s \in Sweeps :
         LET sw == sweep[s]
             nx == sweep'[s]
         IN /\ (sw.pc = "findMany" /\ nx.pc = "send")
                  => /\ {nx.sel[j].id : j \in 1..Len(nx.sel)}
                          = DueIds(tasks, sw.now)
                     /\ Len(nx.sel) = Cardinality(DueIds(tasks, sw.now))
            /\ (sw.pc = "findMany" /\ nx.pc = "ended" /\ faults' = faults)
                  => DueIds(tasks, sw.now) = {}
            /\ (sw.pc = "update" /\ Len(nx.out) > Len(sw.out)
                   /\ nx.out[Len(nx.out)] = "ok")
                  => LET t == sw.sel[sw.k]
                     IN /\ Row(tasks', t.id).lastRemind
                             = sw.now + t.remindInterval * 60 * 1000
                        /\ t.id \notin DueIds(tasks', sw.now)
            /\ (sw.pc # "ended" /\ nx.pc = "ended")
                  => nx.sent = Delivered(nx)
      ]_vars

\* Two sweeps in a row without a failure: the first reminded both tasks, the
\* second, one period later, found nothing to send.
C6_Witness ==
    \E s \in Sweeps :
       /\ sweep[s].pc = "ended"
       /\ sweep[s].now = 2 * reminderCheckInterval
       /\ sweep[s].sel = <<>>
       /\ faults = 0
       /\ Len(reminders) = 2
       /\ \A n \in 1..Len(tasks) :
             tasks[n].lastRemind
                = reminderCheckInterval + tasks[n].remindInterval * MsPerMinute

\* C7: two reminders for the same task are at least remindInterval minutes
\* apart.
C7_NoEarlyReminder ==
    \A i \in 1..Len(reminders) : \A j \in 1..Len(reminders) :
       (i < j /\ reminders[i].id = reminders[j].id)
          => reminders[j].at
                >= reminders[i].at
                     + Row(tasks, reminders[i].id).remindInterval * MsPerMinute

\* C8: a step of a reminder sweep leaves every task's status and every
\* column but lastRemind as it was, creates and deletes no task, and leaves
\* the users and the sessions alone.
C8_SweepFrame ==
    [][(\E s \in Sweeps : Scheduler(s))
          => /\ Len(tasks') = Len(tasks)
             /\ \A n \in 1..Len(tasks) :
                   /\ tasks'[n].status = tasks[n].status
                   /\ [tasks'[n] EXCEPT !.lastRemind = tasks[n].lastRemind]
                         = tasks[n]
             /\ users' = users
             /\ redis' = redis
      ]_vars

\* A sweep has rescheduled a task: only its lastRemind differs from the row
\* the database started with.
C8_Witness ==
    \E s \in Sweeps :
       /\ sweep[s].pc = "ended"
       /\ sweep[s].out = <<"ok", "ok">>
       /\ \A n \in 1..Len(tasks) :
             tasks[n].status = "PENDING" /\ tasks[n].lastRemind > clock

\* C9: a sweep that has ended has been through every task it selected,
\* whatever failed on the way: each selected task has an outcome, and each
\* task whose own send and update succeeded was sent one reminder by this
\* sweep and no longer has the lastRemind it was selected with.
C9_FailureIsolated ==
    \A s \in Sweeps :
       (sweep[s].pc = "ended" /\ sweep[s].sel # <<>>)
          => LET sw == sweep[s]
             IN /\ Len(sw.out) = Len(sw.sel)
                /\ \A j \in 1..Len(sw.sel) :
                      sw.out[j] = "ok"
                         => /\ Cardinality({m \in 1..Len(sw.sent) :
                                              sw.sent[m] = sw.sel[j].id}) = 1
                            /\ Row(tasks, sw.sel[j].id).lastRemind
                                  # sw.sel[j].lastRemind

\* The first selected task failed, the second was sent and rescheduled.
C9_Witness ==
    \E s \in Sweeps :
       /\ sweep[s].pc = "ended"
       /\ Len(sweep[s].sel) = 2
       /\ sweep[s].out[1] \in {"sendFailed", "updateFailed"}
       /\ sweep[s].out[2] = "ok"
       /\ sweep[s].sel[2].id \in {reminders[m].id : m \in 1..Len(reminders)}

(***************************************************************************)
(* The dispatcher with one callback at a time, and the engine behind it.   *)
(***************************************************************************)
\* An event of a type the dispatcher does not hand to the engine.
Edited(chat) == [Msg(chat, Str_FixBug) EXCEPT !.type = "editedMessage"]

\* The same event sent by a user who has changed their first name.
Renamed(ev, firstName) == [ev EXCEPT !.from.firstName = firstName]

\* /start, press "create task", "Fix bug", share contact Bob, "30".
ScenarioFeed ==
    <<Msg(Ann, Str_start), Cb(Ann, Str_create_task), Msg(Ann, Str_FixBug),
      Msg(Ann, Contact(Bob)), Msg(Ann, Str_30)>>

\* /start sent in the middle of a flow.
StartOverFeed == <<Cb(Ann, Str_create_task), Msg(Ann, Str_start)>>

StartOverTasksFeed == <<Cb(Bob, Str_check_user_tasks), Msg(Bob, Str_start)>>

MixedFeed ==
    <<Msg(Ann, Str_start), Edited(Ann), Cb(Ann, Str_watch_tasks),
      Msg(Bob, Str_start)>>

InitScenario == InitWith({ScenarioFeed}, {{UserRow(Bob)}}, {<<>>})

NextScenario == Arrive \/ Dispatcher(1)

SpecScenario == InitScenario /\ [][NextScenario]_vars

InitSeq ==
    InitWith({StartOverFeed, StartOverTasksFeed, MixedFeed},
             {{UserRow(Bob)}}, {<<>>})

NextSeq ==
    \/ Arrive
    \/ \E c \in Chats : ExpireSession(c)
    \/ Dispatcher(1)

SpecSeq == InitSeq /\ [][NextSeq]_vars

\* The step of chat c's session, "none" without one.
Step(c) == IF redis[c] = <<>> THEN "none" ELSE redis[c][1].step

\* The handler of event k has just returned.
After(k) == \E i \in Ticks : poll[i].pc = "returned" /\ poll[i].k = k

\* The event is a message whose first word is /start.
IsStart(ev) ==
    /\ ev.type = "newMessage"
    /\ ev.text # Undefined
    /\ Split(ev.text, " ")[1] = Str_start

\* C2: the events /start, create_task, "Fix bug", a contact share of the
\* existing user Bob and "30", handled one after the other with every call
\* succeeding, take Ann's session through AWAITING_DESCRIPTION,
\* AWAITING_USER_ID and AWAITING_TIME and end with exactly one task, PENDING,
\* with remindInterval 30, assigned to Bob, and no session.
C2_Scenario ==
    faults = 0 =>
       /\ After(1) => (Step(Ann) = "none" /\ tasks = <<>>)
       /\ After(2) => (Step(Ann) = "AWAITING_DESCRIPTION" /\ tasks = <<>>)
       /\ After(3) => /\ Step(Ann) = "AWAITING_USER_ID"
                      /\ redis[Ann][1].taskData.description = Str_FixBug
                      /\ tasks = <<>>
       /\ After(4) => /\ Step(Ann) = "AWAITING_TIME"
                      /\ redis[Ann][1].taskData.userId = Bob
                      /\ tasks = <<>>
       /\ After(5) => /\ Len(tasks) = 1
                      /\ tasks[1].status = "PENDING"
                      /\ tasks[1].remindInterval = 30
                      /\ tasks[1].userToId = Bob
                      /\ tasks[1].text = Str_FixBug
                      /\ Step(Ann) = "none"

\* The fifth event has been handled: the task stands and the session is gone.
C2_Witness ==
    /\ feed = ScenarioFeed
    /\ After(5)
    /\ faults = 0
    /\ Len(tasks) = 1
    /\ redis[Ann] = <<>>

\* C3: when the handler of a /start message has returned, the chat has no
\* session, a user row for the chat exists and the reply is the welcome.
C3_StartClearsSession ==
    \A i \in Ticks :
       (poll[i].pc = "returned" /\ IsStart(feed[poll[i].k]))
          => /\ redis[feed[poll[i].k].chatId] = <<>>
             /\ \E u \in users : u.vkId = feed[poll[i].k].chatId
             /\ poll[i].io = <<<<"send", "welcome", TRUE>>>>

\* C4: every session in the store has the lifetime of 3600 seconds.
C4_SessionsExpire ==
    \A c \in Chats : redis[c] # <<>> => redis[c][1].ttl = 3600

(***************************************************************************)
(* The dispatcher with overlapping callbacks of the poll timer: /start     *)
(* from two chats, one of them twice and under a new name; and a batch of  *)
(* messages, a callback and an event of a type the dispatcher ignores.     *)
(***************************************************************************)
StartFeed ==
    <<Msg(Ann, Str_start), Renamed(Msg(Ann, Str_start), <<"z">>),
      Msg(Bob, Str_start)>>

InitPoll == InitWith({StartFeed, MixedFeed}, {{}, {UserRow(Ann)}}, {<<>>})

NextPoll == Arrive \/ \E i \in Ticks : Dispatcher(i)

SpecPoll == InitPoll /\ [][NextPoll]_vars

\* C10: a callback of the poll timer dispatches the events of its batch in
\* the order received, and the watermark moves only in the step that follows
\* the return of a handler, to the id of the event handled (or of an ignored
\* event after it), or past ignored events at the head of a batch; after a
\* throw the callback ends without touching the watermark or the rest of its
\* batch.  For a callback that no other callback has overlapped: while it
\* handles an event, and when the handler has thrown, the watermark is at
\* the event before it, so a poll made then returns the failed event and
\* those after it.
C10_BatchOrder ==
    /\ [][/\ \A i \in Ticks :
              LET p == poll[i]
                  q == poll'[i]
              IN /\ (p.pc = "getEvents"
                     /\ q.pc \notin {"idle", "getEvents", "failed"})
                       => /\ p.last < q.k /\ q.k <= q.hi
                          /\ \A m \in (p.last + 1)..(q.k - 1) :
                                feed[m].type \notin Handled
                 /\ (p.pc = "returned" /\ q.pc # "idle")
                       => /\ p.k < q.k /\ q.k <= p.hi
                          /\ \A m \in (p.k + 1)..(q.k - 1) :
                                feed[m].type \notin Handled
                 /\ p.pc = "failed"
                       => (q.pc = "idle" /\ lastEventId' = lastEventId)
          /\ lastEventId' # lastEventId
                => \E i \in Ticks :
                      \/ /\ poll[i].pc = "returned"
                         /\ lastEventId' \in poll[i].k..poll[i].hi
                         /\ \A m \in (poll[i].k + 1)..lastEventId' :
                               feed[m].type \notin Handled
                      \/ /\ poll[i].pc = "getEvents"
                         /\ \A m \in (poll[i].last + 1)..lastEventId' :
                               feed[m].type \notin Handled
         ]_vars
    /\ [](\A i \in Ticks :
            (/\ poll[i].alone
             /\ poll[i].k > 0
             /\ poll[i].pc \in MsgPcs \cup CbPcs \cup {"returned", "failed"})
               => /\ lastEventId < poll[i].k
                  /\ \A m \in (lastEventId + 1)..(poll[i].k - 1) :
                        feed[m].type \notin Handled
                  /\ GetEvents(lastEventId, arrived).lo <= poll[i].k
                  /\ poll[i].k <= GetEvents(lastEventId, arrived).hi)

\* The second dispatch of a batch of four (an ignored event lies between)
\* failed after the first was handled: the watermark stands before the
\* failed event and event 4 is undispatched.
C10_Witness ==
    /\ feed = MixedFeed
    /\ poll[1].pc = "failed"
    /\ poll[1].alone
    /\ poll[1].last = 0
    /\ poll[1].hi = 4
    /\ poll[1].k = 3
    /\ lastEventId = 2
    /\ \E u \in users : u.vkId = Ann

\* C5: no two user rows share a vkId; a row, once there, is never changed or
\* removed; and when the handler of a /start has returned, the chat has a
\* row.
C5_UpsertIdempotent ==
    /\ [](\A u \in users : \A v \in users : u.vkId = v.vkId => u = v)
    /\ [][\A u \in users : u \in users']_vars
    /\ [](\A i \in Ticks :
            (poll[i].pc = "returned" /\ IsStart(feed[poll[i].k]))
               => \E u \in users : u.vkId = feed[poll[i].k].chatId)

\* Ann's second /start, under her new name, has been handled, by two
\* callbacks at once: there is one row for Ann, under the old name, and one
\* for Bob.
C5_Witness ==
    /\ \E i \in Ticks : poll[i].pc = "returned" /\ poll[i].k = 2
    /\ \E i \in Ticks : poll[i].pc \in MsgPcs /\ poll[i].k = 2
    /\ users = {UserRow(Ann), UserRow(Bob)}

(***************************************************************************)
(* The whole bot: the poll timer with overlapping callbacks, the reminder  *)
(* timer with one sweep at a time, the gateway, the session store's        *)
(* expiry.                                                                 *)
(***************************************************************************)
DecisionFeed ==
    <<Cb(Bob, Str_approve \o Str_1), Cb(Bob, Str_reject \o Str_1)>>

FlowFeed == <<Cb(Ann, Str_create_task), Msg(Ann, Str_FixBug)>>

Init ==
    InitWith({DecisionFeed, FlowFeed}, {{UserRow(Ann), UserRow(Bob)}},
             {<<TaskRow(1, Ann, Bob, 1, "PENDING")>>})

Next ==
    \/ Arrive
    \/ \E c \in Chats : ExpireSession(c)
    \/ \E i \in Ticks : Dispatcher(i)
    \/ Scheduler(1)

Spec == Init /\ [][Next]_vars

\* C1: a task whose status is APPROVED or REJECTED keeps that status in
\* every step.
C1_ResolvedIsFinal ==
    [][\A n \in 1..Len(tasks) :
          tasks[n].status \in {"APPROVED", "REJECTED"}
             => tasks'[n].status = tasks[n].status]_vars

\* C11: a failed long poll lands in the catch of its callback with the
\* watermark, the sessions, the users and the tasks as they were, and the
\* callback then ends, again changing none of them; if no other callback
\* overlapped it, the watermark is still the one it polled with, so the next
\* tick polls with the same.  No failed call leaves a callback of either
\* timer stuck: a callback in flight is at a position of the code and can
\* take its next step, a sweep in which a call failed goes on to its next
\* task or ends, and the poll timer can fire whenever a callback slot is
\* free.
C11_FailureContained ==
    /\ [][/\ \A i \in Ticks :
              /\ (poll[i].pc = "getEvents" /\ poll'[i].pc = "failed")
                    => /\ lastEventId' = lastEventId
                       /\ redis' = redis /\ users' = users /\ tasks' = tasks
              /\ poll[i].pc = "failed"
                    => /\ poll'[i].pc = "idle"
                       /\ lastEventId' = lastEventId
                       /\ redis' = redis /\ users' = users /\ tasks' = tasks
          /\ \A s \in Sweeps :
              (sweep'[s] # sweep[s] /\ faults' > faults)
                 => sweep'[s].pc \in {"send", "ended"}
         ]_vars
    /\ [](\A i \in Ticks :
            (poll[i].pc = "failed" /\ poll[i].k = 0 /\ poll[i].alone)
               => lastEventId = poll[i].last)
    /\ [](\A i \in Ticks :
            /\ poll[i].pc \in {"idle", "getEvents", "returned", "failed"}
                                 \cup MsgPcs \cup CbPcs
            /\ (poll[i].pc # "idle"
                  /\ (Settled \/ poll[i].pc \in {"returned", "failed"}))
                  => ENABLED Dispatcher(i))
    /\ [](\A s \in Sweeps :
            (sweep[s].pc # "idle" /\ (Settled \/ sweep[s].pc = "ended"))
               => ENABLED Scheduler(s))
    /\ []((Settled /\ \E i \in Ticks : poll[i].pc = "idle")
             => ENABLED (\E i \in Ticks : PollTick(i)))

\* The long poll that followed the first event failed: the callback is in
\* its catch and the watermark is still 1, the value it polled with.
C11_Witness ==
    \E i \in Ticks :
       /\ poll[i].pc = "failed"
       /\ poll[i].k = 0
       /\ poll[i].alone
       /\ poll[i].last = 1
       /\ lastEventId = 1
       /\ arrived = 2

\* C12: when the handler of a message has returned with the reply that the
\* task could not be created, no task is stored and the chat has no session.
C12_CreateFailureClearsSession ==
    \A i \in Ticks :
       (poll[i].pc = "returned"
          /\ poll[i].io = <<<<"send", "createError", FALSE>>>>)
          => /\ tasks = <<>>
             /\ redis[feed[poll[i].k].chatId] = <<>>

(***************************************************************************)
(* The creation flow with inputs of every kind at its two parsing steps:   *)
(* the contact and the interval.  One callback at a time.                  *)
(***************************************************************************)
Carl == <<"c", "@", "x">>

\* Inputs at AWAITING_USER_ID: a link to a user who never started the bot,
\* a link whose tail has no '@', a link that ends with '/', an '@' that is
\* not in the tail, and the bare id of Bob.
ContactTexts ==
    {Contact(Carl),
     Contact(<<"b", "o", "b">>),
     Contact(Bob) \o <<"/">>,
     Bob \o <<"/", "p">>,
     Bob}

\* Inputs at AWAITING_TIME.
Str_0 == <<"0">>

Str_minus5 == <<"-", "5">>

Str_ab == <<"a", "b">>

Str_3m == <<"3", "m">>

Str_1_5 == <<"1", ".", "5">>

TimeTexts == {Str_0, Str_minus5, Str_ab, Str_3m, Str_1_5, Str_30}

ContactFeed(x) ==
    <<Cb(Ann, Str_create_task), Msg(Ann, Str_FixBug), Msg(Ann, x),
      Msg(Ann, Contact(Bob))>>

TimeFeed(x) ==
    <<Cb(Ann, Str_create_task), Msg(Ann, Str_FixBug), Msg(Ann, Contact(Bob)),
      Msg(Ann, x), Msg(Ann, Str_1)>>

InitInput ==
    InitWith({ContactFeed(x) : x \in ContactTexts}
                \cup {TimeFeed(x) : x \in TimeTexts},
             {{UserRow(Bob)}}, {<<>>})

NextInput == Arrive \/ Dispatcher(1)

SpecInput == InitInput /\ [][NextInput]_vars

\* The text is a positive integer in decimal digits, and its value.
IsPositiveInteger(s) ==
    /\ s # Undefined
    /\ Len(s) > 0
    /\ \A n \in 1..Len(s) : IsDigit(s[n])
    /\ DigitsValue(s, 1, 0) > 0

\* The text after the last '/', the whole text when it has none.
RECURSIVE LastSlash(_, _)
LastSlash(s, i) == IF i = 0 \/ s[i] = "/" THEN i ELSE LastSlash(s, i - 1)

Trail(s) == SubSeq(s, LastSlash(s, Len(s)) + 1, Len(s))

\* C13: while a message whose text is not a positive integer is handled at
\* AWAITING_TIME, no task is created and the chat's session stays as it is,
\* and the handler returns having sent the format error; and whenever a task
\* is created, it is by a message handled at AWAITING_TIME whose text is a
\* positive integer, and the new task's remindInterval is that integer.
C13_IntervalInput ==
    [][/\ \A i \in Ticks :
           LET ev == feed[poll[i].k] IN
           (poll[i].step = "AWAITING_TIME" /\ ~IsPositiveInteger(ev.text))
              => /\ tasks' = tasks
                 /\ redis'[ev.chatId] = redis[ev.chatId]
                 /\ (poll[i].pc = "m.send" /\ poll'[i].pc = "returned")
                       => poll'[i].io = <<<<"send", "badInterval", FALSE>>>>
       /\ tasks' # tasks
            => \E i \in Ticks :
                  LET ev == feed[poll[i].k] IN
                  /\ poll[i].step = "AWAITING_TIME"
                  /\ IsPositiveInteger(ev.text)
                  /\ Len(tasks') = Len(tasks) + 1
                  /\ tasks'[Len(tasks')].remindInterval
                        = DigitsValue(ev.text, 1, 0)
      ]_vars

\* C14: when the handler of a message read at AWAITING_USER_ID has returned,
\* the session is at AWAITING_TIME with the text after the last '/' as the
\* target id if that text contains '@' and is the id of a user and no call
\* failed; in every other case the session is the one the handler found:
\* AWAITING_USER_ID, with the description and no target.
C14_ContactStep ==
    \A i \in Ticks :
       LET p == poll[i]
           ev == feed[p.k]
           seg == Trail(ev.text)
           known == /\ \E n \in 1..Len(seg) : seg[n] = "@"
                    /\ \E u \in users : u.vkId = seg
       IN (p.pc = "returned" /\ p.step = "AWAITING_USER_ID")
             => /\ redis[ev.chatId] # <<>>
                /\ redis[ev.chatId][1].taskData.description = Str_FixBug
                /\ IF known /\ p.responseText # "userCheckError"
                   THEN /\ redis[ev.chatId][1].step = "AWAITING_TIME"
                        /\ redis[ev.chatId][1].taskData.userId = seg
                   ELSE /\ redis[ev.chatId][1].step = "AWAITING_USER_ID"
                        /\ redis[ev.chatId][1].taskData.userId = Undefined
                /\ (redis[ev.chatId][1].step = "AWAITING_TIME") =>
                      (known /\ redis[ev.chatId][1].taskData.userId = seg)

\* A contact unknown to the bot was answered and left the session where it
\* was; the link to Bob that followed moved it to AWAITING_TIME.
C14_Witness ==
    \E i \in Ticks :
       /\ feed = ContactFeed(Contact(Carl))
       /\ poll[i].pc = "returned"
       /\ poll[i].k = 4
       /\ poll[i].step = "AWAITING_USER_ID"
       /\ redis[Ann] # <<>>
       /\ redis[Ann][1].step = "AWAITING_TIME"
       /\ redis[Ann][1].taskData.userId = Bob

(***************************************************************************)
(* The creation flow under overlapping callbacks of the poll timer.        *)
(***************************************************************************)
CreateFeed ==
    <<Cb(Ann, Str_create_task), Msg(Ann, Str_FixBug), Msg(Ann, Contact(Bob)),
      Msg(Ann, Str_1)>>

InitCreate == InitWith({CreateFeed, MixedFeed}, {{UserRow(Bob)}}, {<<>>})

NextCreate == Arrive \/ \E i \in Ticks : Dispatcher(i)

SpecCreate == InitCreate /\ [][NextCreate]_vars

\* C15: in every reachable state each stored task has a positive
\* remindInterval and an assignee who is a user; the task table changes only
\* by one new row at its end, with status PENDING, written by the handler of
\* a message that read the session at AWAITING_TIME, and the row's text and
\* assignee are the text of a message and the contact id of a message, which
\* the earlier steps of the flow left in the session.
C15_TaskCreation ==
    /\ [](\A n \in 1..Len(tasks) :
            /\ tasks[n].remindInterval > 0
            /\ \E u \in users : u.vkId = tasks[n].userToId)
    /\ [][tasks' # tasks =>
            /\ Len(tasks') = Len(tasks) + 1
            /\ SubSeq(tasks', 1, Len(tasks)) = tasks
            /\ tasks'[Len(tasks')].status = "PENDING"
            /\ \E i \in Ticks :
                  /\ poll[i].pc = "m.create"
                  /\ poll'[i].pc = "m.delTime"
                  /\ poll[i].step = "AWAITING_TIME"
                  /\ feed[poll[i].k].type = "newMessage"
                  /\ \E m \in 1..Len(feed) :
                        /\ feed[m].type = "newMessage"
                        /\ tasks'[Len(tasks')].text = feed[m].text
                  /\ \E m \in 1..Len(feed) :
                        /\ feed[m].type = "newMessage"
                        /\ tasks'[Len(tasks')].userToId = Trail(feed[m].text)
         ]_vars

\* The flow has run to its end under two overlapping callbacks and the task
\* stands.
C15_Witness ==
    /\ feed = CreateFeed
    /\ \E i, j \in Ticks :
          /\ i # j
          /\ poll[i].pc = "returned"
          /\ poll[i].k = 4
          /\ ~poll[i].alone
    /\ Len(tasks) = 1
    /\ tasks[1].status = "PENDING"
    /\ tasks[1].userToId = Bob

\* C16: the handler of a message that has returned has sent exactly one
\* reply, with buttons exactly when it is the welcome of /start; and the
\* handler does not end without a reply because a repository call (a user
\* or task lookup, the upsert, the creation) failed: it throws only where
\* the session store or the send itself failed.
C16_OneReply ==
    /\ [](\A i \in Ticks :
            (poll[i].pc = "returned" /\ feed[poll[i].k].type = "newMessage")
               => /\ Len(poll[i].io) = 1
                  /\ poll[i].io[1][1] = "send"
                  /\ poll[i].io[1][3] = (poll[i].io[1][2] = "welcome"))
    /\ [][\A i \in Ticks :
            (poll[i].pc \in MsgPcs /\ poll'[i].pc = "failed")
               => poll[i].pc \in {"m.get", "m.setUserId", "m.setTime",
                                  "m.delTasks", "m.delTime", "m.startDel",
                                  "m.send"}
         ]_vars

(***************************************************************************)
(* Callbacks of every kind under overlapping callbacks of the poll timer:  *)
(* decisions on a pending task and on a task that does not exist, data the *)
(* bot does not know and a message, and the four buttons of the welcome.   *)
(***************************************************************************)
Str_xyz == <<"x", "y", "z">>

DecideFeed ==
    <<Cb(Bob, Str_approve \o <<"1">>), Cb(Bob, Str_reject \o <<"1">>),
      Cb(Bob, Str_xyz), Msg(Bob, Str_FixBug)>>

ButtonsFeed ==
    <<Cb(Ann, Str_watch_statistics), Cb(Ann, Str_watch_tasks),
      Cb(Ann, Str_check_user_tasks), Cb(Ann, Str_create_task)>>

InitCallback ==
    InitWith({DecideFeed, ButtonsFeed}, {{UserRow(Ann), UserRow(Bob)}},
             {<<>>, <<TaskRow(1, Ann, Bob, 1, "PENDING")>>})

NextCallback == Arrive \/ \E i \in Ticks : Dispatcher(i)

SpecCallback == InitCallback /\ [][NextCallback]_vars

\* C17: a callback handler that has returned has acknowledged the query
\* once and then sent one message without buttons; the acknowledgement is
\* the handler's first output and the message its second; and no outcome of
\* the repository (task not found, task resolved, a failed call) and no
\* callback data makes the handler end before them: it throws only where
\* the session store, the acknowledgement or the send itself failed.
C17_AckThenReply ==
    /\ [](\A i \in Ticks :
            (poll[i].pc = "returned" /\ feed[poll[i].k].type = "callbackQuery")
               => poll[i].io = <<<<"ack", "", FALSE>>,
                                 <<"send", poll[i].responseText, FALSE>>>>)
    /\ [][\A i \in Ticks :
            /\ (poll[i].pc \in CbPcs /\ poll'[i].pc = "failed")
                  => poll[i].pc \in {"c.get", "c.setDescription",
                                     "c.setForTasks", "c.ack", "c.send"}
            /\ (poll[i].pc \in CbPcs /\ poll'[i].k = poll[i].k
                  /\ poll'[i].io # poll[i].io)
                  => \/ /\ poll[i].io = <<>>
                        /\ poll'[i].io = <<<<"ack", "", FALSE>>>>
                     \/ /\ poll[i].io = <<<<"ack", "", FALSE>>>>
                        /\ Len(poll'[i].io) = 2
                        /\ poll'[i].io[2][1] = "send"
         ]_vars

\* A decision whose repository call failed was acknowledged and answered
\* with the error text.
C17_Witness ==
    \E i \in Ticks :
       /\ poll[i].pc = "returned"
       /\ feed[poll[i].k].type = "callbackQuery"
       /\ IsDecision(feed[poll[i].k].callbackData)
       /\ Len(poll[i].io) = 2
       /\ poll[i].io[2][2] = "taskError"

(***************************************************************************)
(* A decision that races with the reminder timer: one pending task, its    *)
(* assignee's approve, one poll callback at a time and overlapping sweeps. *)
(***************************************************************************)
RaceFeed == <<Cb(Bob, Str_approve \o Str_1), Msg(Bob, Str_FixBug)>>

InitRace ==
    InitWith({RaceFeed}, {{UserRow(Ann), UserRow(Bob)}},
             {<<TaskRow(1, Ann, Bob, 1, "PENDING")>>})

NextRace ==
    \/ Arrive
    \/ Dispatcher(1)
    \/ \E s \in Sweeps : Scheduler(s)

SpecRace == InitRace /\ [][NextRace]_vars

\* The reminders sent for task id when its row no longer said PENDING.
LateReminders(id) ==
    {m \in 1..Len(reminders) :
        reminders[m].id = id /\ reminders[m].st # "PENDING"}

\* C18: a task gets at most one reminder after its status left PENDING; a
\* sweep sends a reminder for a resolved task, or writes its lastRemind,
\* only if its own query selected the task, which it did while the task was
\* PENDING; and a sweep's query never selects a task that is resolved.
C18_OneLateReminder ==
    /\ [](\A n \in 1..Len(tasks) :
             Cardinality(LateReminders(tasks[n].id)) <= 1)
    /\ [](\A s \in Sweeps : \A m \in 1..Len(sweep[s].sel) :
             sweep[s].sel[m].status = "PENDING")
    /\ [][\A n \in 1..Len(tasks) :
            (tasks[n].status # "PENDING"
               /\ \/ Len(reminders') > Len(reminders)
                     /\ reminders'[Len(reminders')].id = tasks[n].id
                  \/ tasks'[n].lastRemind # tasks[n].lastRemind)
               => \E s \in Sweeps :
                     /\ sweep[s].pc \in {"send", "update"}
                     /\ sweep'[s] # sweep[s]
                     /\ sweep[s].sel[sweep[s].k].id = tasks[n].id
         ]_vars

(***************************************************************************)
(* The race under fairness, with one sweep and one poll callback at a      *)
(* time: the reminder timer keeps firing and every call of a sweep         *)
(* returns; the poll timer keeps firing and every call of a handler        *)
(* returns.  A call fails at most MaxFaults times, so calls succeed in the *)
(* end.                                                                    *)
(***************************************************************************)
NextLive ==
    \/ Arrive
    \/ Dispatcher(1)
    \/ Scheduler(1)

FairLive ==
    /\ WF_vars(Dispatcher(1))
    /\ WF_vars(Scheduler(1))

SpecLive == InitRace /\ [][NextLive]_vars /\ FairLive

\* The time of the first tick of the reminder timer at which the row is due.
DueAt(row) ==
    IF row.lastRemind < clock + reminderCheckInterval
    THEN clock + reminderCheckInterval
    ELSE ((row.lastRemind \div reminderCheckInterval) + 1)
            * reminderCheckInterval

\* The clock of the model reaches as far as the tick at which the row is
\* due and one more tick for every call that can still fail.
InHorizon(row) ==
    DueAt(row) + (MaxFaults - faults) * reminderCheckInterval <= MaxClock

\* C19: whenever no sweep is in flight and a task is PENDING, then, as far
\* as the clock of the model reaches, a reminder for it is sent at a later
\* time or the task is resolved: a task that stays PENDING is reminded
\* again after every reminder.
C19_RemindedAgain ==
    \A k \in 0..MaxClockSteps :
       (/\ clock = k * reminderCheckInterval
        /\ \A s \in Sweeps : sweep[s].pc = "idle"
        /\ tasks[1].status = "PENDING"
        /\ InHorizon(tasks[1]))
          ~> (\/ tasks[1].status # "PENDING"
              \/ \E m \in 1..Len(reminders) :
                    /\ reminders[m].id = tasks[1].id
                    /\ reminders[m].at > k * reminderCheckInterval)

\* The task is still PENDING and has been reminded a second time, a minute
\* and more after the first.
C19_Witness ==
    /\ tasks[1].status = "PENDING"
    /\ \A s \in Sweeps : sweep[s].pc = "idle"
    /\ Len(reminders) = 2
    /\ tasks[1].lastRemind >= reminders[2].at + MsPerMinute
    /\ \E m, n \in 1..Len(reminders) :
          /\ reminders[m].id = tasks[1].id
          /\ reminders[n].id = tasks[1].id
          /\ reminders[n].at >= reminders[m].at + MsPerMinute
          /\ reminders[m].st = "PENDING"
          /\ reminders[n].st = "PENDING"

\* C20: no step lowers the watermark lastEventId.
C20_WatermarkMonotonic == [][lastEventId' >= lastEventId]_vars

\* C21: as long as no call has failed, no event is dispatched twice: no two
\* poll callbacks are handling the same event, no callback begins an event
\* that the watermark has already passed, and the one message that
\* completes the flow at AWAITING_TIME has created at most one task.
C21_NoDoubleDispatch ==
    /\ [](faults = 0 =>
            /\ \A i, j \in Ticks :
                  (i # j /\ poll[i].k > 0) => poll[i].k # poll[j].k
            /\ feed = CreateFeed => Len(tasks) <= 1)
    /\ [][faults' = 0 =>
            \A i \in Ticks :
               (poll'[i].k # poll[i].k /\ poll'[i].k > 0)
                  => poll'[i].k > lastEventId'
         ]_vars

(***************************************************************************)
(* Events of every shape in front of other events, one poll callback at a  *)
(* time, under fairness: the poll timer keeps firing, every call of a      *)
(* handler returns and the gateway delivers what was sent.  A call fails   *)
(* at most MaxFaults times, so calls succeed in the end.                   *)
(***************************************************************************)
\* A message that carries a file and no text.
FileOnly(chat) ==
    [Msg(chat, Undefined) EXCEPT
        !.file = [fileId |-> <<"f">>, caption |-> Undefined]]

\* A file sent by an idle chat; a file sent as the description and a file
\* sent where the contact is expected; and the batch of MixedFeed.
IdleFileFeed == <<FileOnly(Ann), Msg(Bob, Str_start)>>

FlowFileFeed ==
    <<Cb(Ann, Str_create_task), FileOnly(Ann), FileOnly(Ann),
      Msg(Bob, Str_start)>>

InitDrain ==
    InitWith({IdleFileFeed, FlowFileFeed, MixedFeed}, {{UserRow(Bob)}},
             {<<>>})

NextDrain == Arrive \/ Dispatcher(1)

FairDrain ==
    /\ WF_vars(Arrive)
    /\ WF_vars(Dispatcher(1))

SpecDrain == InitDrain /\ [][NextDrain]_vars /\ FairDrain

\* C22: the watermark eventually reaches every event the gateway holds.
C22_WatermarkPassesAll ==
    \A n \in 1..4 :
       (n <= Len(feed) /\ arrived >= n) ~> (lastEventId >= n)

\* C23: the step in which a reminder's send fails sends nothing, writes no
\* task and does not lead to this task's update; the step in which the
\* update fails writes no task; a task row is written only by the update of
\* a sweep that has sent this task's reminder, and only that row; and when
\* a sweep has ended, a task whose send or update failed in it and whose
\* row is still the one selected is due at the next tick of the timer.
C23_FailedReminderKeepsDue ==
    /\ [][/\ \A s \in Sweeps :
              LET sw == sweep[s] IN
              /\ (sw.pc = "send" /\ sweep'[s] # sw /\ faults' > faults)
                    => /\ tasks' = tasks
                       /\ reminders' = reminders
                       /\ sweep'[s].sent = sw.sent
                       /\ sweep'[s].out = Append(sw.out, "sendFailed")
                       /\ sweep'[s].pc # "update"
              /\ (sw.pc = "update" /\ sweep'[s] # sw /\ faults' > faults)
                    => /\ tasks' = tasks
                       /\ sweep'[s].out = Append(sw.out, "updateFailed")
          /\ tasks' # tasks =>
                \E s \in Sweeps :
                   LET sw == sweep[s]
                       id == sw.sel[sw.k].id
                   IN /\ sw.pc = "update"
                      /\ sweep'[s] # sw
                      /\ sw.sent # <<>>
                      /\ sw.sent[Len(sw.sent)] = id
                      /\ \A n \in 1..Len(tasks) :
                            tasks[n].id # id => tasks'[n] = tasks[n]
         ]_vars
    /\ [](\A s \in Sweeps :
            sweep[s].pc = "ended" =>
               \A j \in 1..Len(sweep[s].out) :
                  (/\ sweep[s].out[j] \in {"sendFailed", "updateFailed"}
                   /\ Row(tasks, sweep[s].sel[j].id) = sweep[s].sel[j])
                     => sweep[s].sel[j].id
                           \in DueIds(tasks,
                                      sweep[s].now + reminderCheckInterval))

\* The send for the first task of a sweep failed; the sweep is on its second
\* task when the sweep of the next tick has selected the first one again.
C23_Witness ==
    \E s, t \in Sweeps :
       /\ sweep[s].out = <<"sendFailed">>
       /\ sweep[s].pc \in {"send", "update"}
       /\ sweep[t].now = sweep[s].now + reminderCheckInterval
       /\ sweep[t].pc = "send"
       /\ sweep[t].sel[1].id = sweep[s].sel[1].id
       /\ Row(tasks, sweep[s].sel[1].id) = sweep[s].sel[1]

(***************************************************************************)
(* Callbacks that arrive in the middle of a flow, one poll callback at a   *)
(* time: the session is at AWAITING_DESCRIPTION, at AWAITING_USER_ID, at   *)
(* AWAITING_TIME and at AWAITING_USER_ID_FOR_TASKS when they are handled.  *)
(***************************************************************************)
MidFlowFeed ==
    <<Cb(Ann, Str_create_task), Cb(Ann, Str_watch_tasks),
      Msg(Ann, Str_FixBug), Cb(Ann, Str_approve \o Str_1),
      Cb(Ann, Str_watch_statistics), Cb(Ann, Str_check_user_tasks)>>

LateFlowFeed ==
    <<Cb(Ann, Str_create_task), Msg(Ann, Str_FixBug), Msg(Ann, Contact(Bob)),
      Cb(Ann, Str_xyz), Cb(Ann, Str_reject \o Str_1),
      Cb(Ann, Str_create_task)>>

ReportFlowFeed ==
    <<Cb(Ann, Str_check_user_tasks), Cb(Ann, Str_watch_statistics),
      Cb(Ann, Str_xyz), Cb(Ann, Str_create_task)>>

InitFrame ==
    InitWith({MidFlowFeed, LateFlowFeed, ReportFlowFeed},
             {{UserRow(Ann), UserRow(Bob)}},
             {<<TaskRow(1, Bob, Ann, 1, "PENDING")>>})

NextFrame == Arrive \/ Dispatcher(1)

SpecFrame == InitFrame /\ [][NextFrame]_vars

\* What a session holds: its step and task data, "none" without a session.
Held(c) ==
    IF redis[c] = <<>> THEN "none"
    ELSE [step |-> redis[c][1].step, taskData |-> redis[c][1].taskData]

\* C24: no step of a callback handler touches another chat's session; a
\* step of the handler of approve_<id>, reject_<id>, watch_tasks,
\* watch_statistics or unknown data leaves the chat's session as it is; a
\* step of the handler of create_task or check_user_tasks leaves it or
\* replaces it with the session of step AWAITING_DESCRIPTION resp.
\* AWAITING_USER_ID_FOR_TASKS and empty task data, and when that handler
\* has returned this is the chat's session.
C24_CallbackFrame ==
    /\ [][\A i \in Ticks :
            (poll[i].pc \in CbPcs /\ poll'[i] # poll[i]) =>
               LET ev == feed[poll[i].k]
                   c == ev.chatId
                   fresh(step) == <<[step |-> step, taskData |-> EmptyTaskData,
                                     ttl |-> redis'[c][1].ttl]>>
               IN /\ \A d \in Chats \ {c} : redis'[d] = redis[d]
                  /\ CASE ev.callbackData = Str_create_task ->
                            \/ redis'[c] = redis[c]
                            \/ /\ redis'[c] # <<>>
                               /\ redis'[c] = fresh("AWAITING_DESCRIPTION")
                       [] ev.callbackData = Str_check_user_tasks ->
                            \/ redis'[c] = redis[c]
                            \/ /\ redis'[c] # <<>>
                               /\ redis'[c] = fresh("AWAITING_USER_ID_FOR_TASKS")
                       [] OTHER -> redis'[c] = redis[c]
         ]_vars
    /\ [](\A i \in Ticks :
            (poll[i].pc = "returned"
               /\ feed[poll[i].k].type = "callbackQuery")
               => LET ev == feed[poll[i].k] IN
                  /\ ev.callbackData = Str_create_task
                        => Held(ev.chatId) =
                              [step |-> "AWAITING_DESCRIPTION",
                               taskData |-> EmptyTaskData]
                  /\ ev.callbackData = Str_check_user_tasks
                        => Held(ev.chatId) =
                              [step |-> "AWAITING_USER_ID_FOR_TASKS",
                               taskData |-> EmptyTaskData])

\* The session stood at AWAITING_USER_ID with the description when the
\* approve and the statistics callbacks were handled, and check_user_tasks
\* has now replaced it.
C24_Witness ==
    /\ feed = MidFlowFeed
    /\ faults = 0
    /\ After(6)
    /\ tasks[1].status = "APPROVED"
    /\ Held(Ann) = [step |-> "AWAITING_USER_ID_FOR_TASKS",
                    taskData |-> EmptyTaskData]

(***************************************************************************)
(* The statistics of a user whose task is resolved by another chat, with   *)
(* overlapping poll callbacks.                                             *)
(***************************************************************************)
StatsFeed ==
    <<Cb(Ann, Str_watch_statistics), Cb(Bob, Str_approve \o Str_1),
      Msg(Bob, Str_FixBug)>>

InitStats ==
    InitWith({StatsFeed}, {{UserRow(Ann), UserRow(Bob)}},
             {<<TaskRow(1, Ann, Bob, 1, "PENDING")>>})

NextStats == Arrive \/ \E i \in Ticks : Dispatcher(i)

SpecStats == InitStats /\ [][NextStats]_vars

\* C25: whenever a watch_statistics handler has made its four counts, the
\* total it reports is the sum of the approved, rejected and pending counts
\* it reports.
C25_StatsConsistent ==
    \A i \in Ticks :
       (poll[i].responseText = "stats" /\ Len(poll[i].counts) = 4)
          => poll[i].counts[1]
                = poll[i].counts[2] + poll[i].counts[3] + poll[i].counts[4]

====
